---- MODULE Spec2Model ----
(***************************************************************************)
(* FormPersistence.js: the serialize / deserialize codec, the element      *)
(* resolver, the storage operations (save, load, clearStorage) and the     *)
(* listeners installed by persist.                                         *)
(*                                                                         *)
(* Unsuffixed definitions model src/form-persistence.js (the release with  *)
(* the skipExternal option).  Definitions suffixed 2 model the release     *)
(* with the include / exclude name lists (src/unnamed/part_000, second     *)
(* half), which resolves controls through form.elements.                   *)
(***************************************************************************)
EXTENDS Integers, Sequences, FiniteSets

VARIABLES
    form,      \* the controls of the document that belong to the form, in document order
    formId,    \* the form's id attribute ("" when the form has none)
    options,   \* the options object the page passes to persist, save, load, clearStorage
    storage,   \* storage[scope][key]: the stored text (a token sequence), <<>> when absent
    regs,      \* the registrations made by persist, with their live listeners
    written,   \* per storage scope, the form as it was when its entry was last written
    last,      \* what the last operation was given, what it returned and what it touched
    nops       \* number of operations performed so far

vars == <<form, formId, options, storage, regs, written, last, nops>>

(***************************************************************************)
(* Bounds of the model.                                                    *)
(***************************************************************************)
MaxControls == 2   \* controls in a form of the codec specification
MaxOps      == 4   \* operations in one behaviour of the lifecycle specification
MaxRegs     == 2   \* calls of persist in one behaviour

(***************************************************************************)
(* JavaScript values held by a record list: strings, booleans, undefined.  *)
(***************************************************************************)
Str(s)    == [t |-> "str", s |-> s]
Bool(b)   == [t |-> "bool", s |-> IF b THEN "true" ELSE "false"]
Undefined == [t |-> "undef", s |-> "undefined"]

\* String(v): what an assignment to a DOMString property (element.value) stores.
ToDOMString(v) == v.s
\* Boolean(v): what an assignment to element.checked stores.
Truthy(v)   == IF v.t = "str" THEN v.s # "" ELSE IF v.t = "bool" THEN v.s = "true" ELSE FALSE
\* values[i] for a 0-based index i: undefined outside the list.
At(values, i) == IF i >= 0 /\ i < Len(values) THEN values[i + 1] ELSE Undefined
\* values.includes(s) for a string s.
Includes(values, s) == \E i \in 1..Len(values) : values[i] = Str(s)

(***************************************************************************)
(* The document: controls and their properties.                            *)
(***************************************************************************)
Names       == {"", "a", "b"}      \* name attributes; "" is a control without a name
TextValues  == {"", "x"}           \* what a text input or a textarea holds
RadioValues == {"x", "y"}          \* the value attributes of radios
SecretValue == "secret"            \* what a password or file input holds
OptionList  == <<"x", "y">>        \* the options of every select, in option order
OptionValues == {OptionList[i] : i \in 1..Len(OptionList)}
Locs        == {"nested", "external"}   \* inside the form tag / elsewhere with form=<id>
\* A control inside the form tag that also carries form=<id of that form>.
NestedWithForm == "nestedWithForm"
\* Whether a control is a descendant of the form / carries the form attribute.
IsNested(c)    == c.loc \in {"nested", NestedWithForm}
HasFormAttr(c) == c.loc \in {"external", NestedWithForm}

Control(tag, type, name, loc, value, checked, sel) ==
    [tag |-> tag, type |-> type, name |-> name, loc |-> loc,
     value |-> value, checked |-> checked, sel |-> sel]

\* Every control of the supported kinds in every state it can be in.
ControlStates ==
    UNION { UNION {
        {Control("INPUT", "text", n, l, v, FALSE, {}) : v \in TextValues}
        \cup {Control("INPUT", "password", n, l, SecretValue, FALSE, {})}
        \cup {Control("INPUT", "file", n, l, SecretValue, FALSE, {})}
        \cup {Control("INPUT", "checkbox", n, l, "on", c, {}) : c \in BOOLEAN}
        \cup {Control("INPUT", "radio", n, l, v, c, {}) : v \in RadioValues, c \in BOOLEAN}
        \cup {Control("TEXTAREA", "textarea", n, l, v, FALSE, {}) : v \in TextValues}
        \cup {Control("SELECT", "select-one", n, l, "", FALSE, s) :
                s \in {{}} \cup {{o} : o \in OptionValues}}
        \cup {Control("SELECT", "select-multiple", n, l, "", FALSE, s) :
                s \in SUBSET OptionValues}
        : l \in Locs } : n \in Names }

IsRadio(c)    == c.tag = "INPUT" /\ c.type = "radio"
\* Two radios are in one group when they carry the same non-empty name.
SameGroup(c, d) == IsRadio(c) /\ IsRadio(d) /\ c.name = d.name /\ c.name # ""

\* A document the browser can show: at most one checked radio per group, and
\* externally associated controls only for a form that has an id.
WellFormed(f, id) ==
    /\ \A i, j \in 1..Len(f) :
          (i # j /\ SameGroup(f[i], f[j])) => ~(f[i].checked /\ f[j].checked)
    /\ (id = "") => \A i \in 1..Len(f) : f[i].loc = "nested"
    /\ \A i, j, k \in 1..Len(f) :
          (i < j /\ j < k /\ IsNested(f[i]) /\ IsNested(f[k])) => IsNested(f[j])

\* Two documents with the same controls, possibly in different states.
SameStructure(f, g) ==
    /\ Len(f) = Len(g)
    /\ \A i \in 1..Len(f) :
          /\ f[i].tag = g[i].tag /\ f[i].type = g[i].type
          /\ f[i].name = g[i].name /\ f[i].loc = g[i].loc
          /\ (f[i].type \in {"radio", "checkbox"}) => f[i].value = g[i].value

\* The states one control can be in.
StatesOf(c) == {d \in ControlStates : SameStructure(<<c>>, <<d>>)}

(***************************************************************************)
(* Element resolver (getFormElements).  It returns positions in the        *)
(* document sequence: the controls nested in the form in document order,   *)
(* then, unless skipExternal is set or the form has no id, the controls    *)
(* matched by the document-wide [form="<id>"] query.                       *)
(***************************************************************************)
\* The positions of f, in increasing order, whose control satisfies Test.
FilterIdx(f, Test(_)) ==
    LET F[i \in 0..Len(f)] ==
            IF i = 0 THEN <<>>
            ELSE IF Test(f[i]) THEN Append(F[i - 1], i) ELSE F[i - 1]
    IN  F[Len(f)]

\* A selector that matches every control whatever its name; C26 fails under it.
MatchesAnyName(c, attribute, value) == TRUE

\* The attribute selector [name="<value>"]; an absent attribute filter matches all.
\* A control without a name attribute (name "") is matched by no [name="..."] selector.
MatchesSelector(c, attribute, value) ==
    (~attribute) \/ (c.name # "" /\ c.name = value)

\* A resolver returning the matched controls in document order; C22's amended
\* statement fails under it.
getFormElementsInDocumentOrder(f, id, skipExternal, attribute, value) ==
    LET Matched(c) ==
            /\ MatchesSelector(c, attribute, value)
            /\ IsNested(c) \/ (HasFormAttr(c) /\ ~skipExternal /\ id # "")
    IN  FilterIdx(f, Matched)

getFormElements(f, id, skipExternal, attribute, value) ==
    LET Internal(c) == IsNested(c) /\ MatchesSelector(c, attribute, value)
        External(c) == HasFormAttr(c) /\ MatchesSelector(c, attribute, value)
        elements == FilterIdx(f, Internal)
    IN  IF ~skipExternal /\ id # ""
        THEN elements \o FilterIdx(f, External)
        ELSE elements

(***************************************************************************)
(* The record: an object whose keys keep their insertion order, modelled   *)
(* as a sequence of [k |-> name, v |-> list of values].                    *)
(***************************************************************************)
Keys(data)      == {data[i].k : i \in 1..Len(data)}
HasKey(data, k) == k \in Keys(data)
KeyIdx(data, k) == CHOOSE i \in 1..Len(data) : data[i].k = k
Get(data, k)    == data[KeyIdx(data, k)].v
\* data[k] = []
SetEmpty(data, k) == Append(data, [k |-> k, v |-> <<>>])
\* data[k].push(value)
Push(data, k, value) ==
    [data EXCEPT ![KeyIdx(data, k)].v = Append(@, value)]

\* element.value of a select: the value of its first selected option, "" when none is.
SelectValue(c) ==
    LET picked == FilterIdx(OptionList, LAMBDA o : o \in c.sel)
    IN  IF picked = <<>> THEN "" ELSE OptionList[picked[1]]

\* The values a <select multiple> pushes: its selected options in option order.
SelectedOptions(c) ==
    LET picked == FilterIdx(OptionList, LAMBDA o : o \in c.sel)
    IN  [i \in 1..Len(picked) |-> Str(OptionList[picked[i]])]

PushAll(data, k, values) ==
    [data EXCEPT ![KeyIdx(data, k)].v = @ \o values]

\* A serialize that skips file inputs only; C1 fails under it.
notSerializedFilesOnly(element) ==
    element.tag = "INPUT" /\ element.type = "file"

\* do not serialize passwords or files
notSerialized(element) ==
    element.tag = "INPUT" /\ (element.type = "password" \/ element.type = "file")

\* One iteration of serialize's loop over the resolved elements.
serializeElement(data, element) ==
    IF notSerialized(element)
    THEN data
    ELSE LET d == IF HasKey(data, element.name) THEN data
                  ELSE SetEmpty(data, element.name)
         IN  IF element.tag = "INPUT"
             THEN IF element.type = "radio"
                  THEN IF element.checked
                       THEN Push(d, element.name, Str(element.value))
                       ELSE d
                  ELSE IF element.type = "checkbox"
                  THEN Push(d, element.name, Bool(element.checked))
                  ELSE Push(d, element.name, Str(element.value))
             ELSE IF element.tag = "TEXTAREA"
             THEN Push(d, element.name, Str(element.value))
             ELSE IF element.tag = "SELECT"
             THEN IF element.type = "select-multiple"
                  THEN PushAll(d, element.name, SelectedOptions(element))
                  ELSE Push(d, element.name, Str(SelectValue(element)))
             ELSE d

serialize(f, id, skipExternal) ==
    LET elements == getFormElements(f, id, skipExternal, FALSE, "")
        D[i \in 0..Len(elements)] ==
            IF i = 0 THEN <<>> ELSE serializeElement(D[i - 1], f[elements[i]])
    IN  D[Len(elements)]

(***************************************************************************)
(* Writes to a control, as the DOM performs them.                          *)
(***************************************************************************)
\* element.checked = b.  Checking a radio unchecks the other radios of its group.
SetChecked(f, pos, b) ==
    [i \in 1..Len(f) |->
        IF i = pos THEN [f[i] EXCEPT !.checked = b]
        ELSE IF b /\ SameGroup(f[i], f[pos]) THEN [f[i] EXCEPT !.checked = FALSE]
        ELSE f[i]]

\* element.value = s on an input or a textarea.
SetValue(f, pos, s) == [f EXCEPT ![pos].value = s]

\* A file input accepts only the empty string: any other assignment to its value
\* raises InvalidStateError.
SetValueThrows(c, s) == c.tag = "INPUT" /\ c.type = "file" /\ s # ""

\* element.value = s on a single select: the option with that value becomes the
\* selected one; when no option has it, none is selected.
SetSelectValue(f, pos, s) ==
    [f EXCEPT ![pos].sel = IF s \in OptionValues THEN {s} ELSE {}]

\* option.selected = values.includes(option.value), for every option.
SetSelectedOptions(f, pos, values) ==
    [f EXCEPT ![pos].sel = {o \in OptionValues : Includes(values, o)}]

\* An applyValues that compares a radio with values[index]; C19 fails under it.
applyValuesByIndex(f, pos, values, index) ==
    LET element == f[pos]
        s == ToDOMString(At(values, index))
    IN  IF element.tag = "INPUT"
        THEN IF element.type = "radio"
             THEN [f |-> SetChecked(f, pos, At(values, index) = Str(element.value)),
                   err |-> FALSE]
             ELSE IF element.type = "checkbox"
             THEN [f |-> SetChecked(f, pos, Truthy(At(values, 0))), err |-> FALSE]
             ELSE IF SetValueThrows(element, s)
                  THEN [f |-> f, err |-> TRUE]
                  ELSE [f |-> SetValue(f, pos, s), err |-> FALSE]
        ELSE IF element.tag = "TEXTAREA"
        THEN [f |-> SetValue(f, pos, s), err |-> FALSE]
        ELSE IF element.tag = "SELECT"
        THEN IF element.type = "select-multiple"
             THEN [f |-> SetSelectedOptions(f, pos, values), err |-> FALSE]
             ELSE [f |-> SetSelectValue(f, pos, s), err |-> FALSE]
        ELSE [f |-> f, err |-> FALSE]

(***************************************************************************)
(* applyValues(element, values, index): the form after the call, and       *)
(* whether the call raised.                                                *)
(***************************************************************************)
applyValues(f, pos, values, index) ==
    LET element == f[pos]
        s == ToDOMString(At(values, index))
    IN  IF element.tag = "INPUT"
        THEN IF element.type = "radio"
             THEN [f |-> SetChecked(f, pos, At(values, 0) = Str(element.value)),
                   err |-> FALSE]
             ELSE IF element.type = "checkbox"
             THEN [f |-> SetChecked(f, pos, Truthy(At(values, 0))), err |-> FALSE]
             ELSE IF SetValueThrows(element, s)
                  THEN [f |-> f, err |-> TRUE]
                  ELSE [f |-> SetValue(f, pos, s), err |-> FALSE]
        ELSE IF element.tag = "TEXTAREA"
        THEN [f |-> SetValue(f, pos, s), err |-> FALSE]
        ELSE IF element.tag = "SELECT"
        THEN IF element.type = "select-multiple"
             THEN [f |-> SetSelectedOptions(f, pos, values), err |-> FALSE]
             ELSE [f |-> SetSelectValue(f, pos, s), err |-> FALSE]
        ELSE [f |-> f, err |-> FALSE]

(***************************************************************************)
(* applySpecialHandlers(data, form, valueFunctions).  valueFunctions is    *)
(* the table's names in definition order (<<>> for null or no table); a    *)
(* handler is a recording function (jest.fn()): it leaves the form alone.  *)
(* Returns the calls made, in order, and the names handled.                *)
(***************************************************************************)
HandlerCalls(fnName, values) ==
    [i \in 1..Len(values) |-> [name |-> fnName, value |-> values[i]]]

applySpecialHandlers(data, valueFunctions) ==
    LET H[i \in 0..Len(valueFunctions)] ==
            IF i = 0 THEN [calls |-> <<>>, speciallyHandled |-> <<>>]
            ELSE LET fnName == valueFunctions[i]
                 IN  IF HasKey(data, fnName)
                     THEN [calls |-> H[i - 1].calls \o HandlerCalls(fnName, Get(data, fnName)),
                           speciallyHandled |-> Append(H[i - 1].speciallyHandled, fnName)]
                     ELSE H[i - 1]
    IN  H[Len(valueFunctions)]

SeqIncludes(list, x) == \E i \in 1..Len(list) : list[i] = x

(***************************************************************************)
(* deserialize(form, data, options).  Returns the form after the call, the *)
(* handler calls, the positions applyValues was called on (in call order)  *)
(* and whether the call raised.                                            *)
(***************************************************************************)
\* What a deserialize call does, in the order it does it: the handler calls and
\* the calls of applyValues.
CallEvent(c)    == [kind |-> "call", name |-> c.name, value |-> c.value, pos |-> 0]
WriteEvent(pos) == [kind |-> "write", name |-> "", value |-> Undefined, pos |-> pos]
CallEvents(calls) == [i \in 1..Len(calls) |-> CallEvent(calls[i])]

\* inputs.forEach((input, i) => applyValues(input, data[name], i))
applyInputs(st, inputs, values) ==
    LET G[j \in 0..Len(inputs)] ==
            IF j = 0 THEN st
            ELSE IF G[j - 1].err THEN G[j - 1]
            ELSE LET r == applyValues(G[j - 1].f, inputs[j], values, j - 1)
                 IN  [G[j - 1] EXCEPT !.f = r.f, !.err = r.err,
                                      !.writes = Append(@, inputs[j]),
                                      !.events = Append(@, WriteEvent(inputs[j]))]
    IN  G[Len(inputs)]

\* A deserialize that ignores speciallyHandled; C9 fails under it.
skipsNoName(speciallyHandled, name) == FALSE

\* Whether the default restoration skips a record name.
skipsName(speciallyHandled, name) == SeqIncludes(speciallyHandled, name)

\* A deserialize that restores by default first and calls the handlers last; C23
\* fails under it.
deserializeHandlersLast(f, id, data, valueFunctions, skipExternal) ==
    LET h == applySpecialHandlers(data, valueFunctions)
        R[i \in 0..Len(data)] ==
            IF i = 0 THEN [f |-> f, err |-> FALSE, writes |-> <<>>, calls |-> <<>>,
                           events |-> <<>>]
            ELSE IF R[i - 1].err \/ skipsName(h.speciallyHandled, data[i].k)
            THEN R[i - 1]
            ELSE applyInputs(R[i - 1],
                             getFormElements(R[i - 1].f, id, skipExternal, TRUE, data[i].k),
                             data[i].v)
        r == R[Len(data)]
    IN  IF r.err THEN r
        ELSE [r EXCEPT !.calls = h.calls, !.events = @ \o CallEvents(h.calls)]

deserialize(f, id, data, valueFunctions, skipExternal) ==
    LET h == applySpecialHandlers(data, valueFunctions)
        R[i \in 0..Len(data)] ==
            IF i = 0 THEN [f |-> f, err |-> FALSE, writes |-> <<>>, calls |-> h.calls,
                           events |-> CallEvents(h.calls)]
            ELSE IF R[i - 1].err \/ skipsName(h.speciallyHandled, data[i].k)
            THEN R[i - 1]
            ELSE applyInputs(R[i - 1],
                             getFormElements(R[i - 1].f, id, skipExternal, TRUE, data[i].k),
                             data[i].v)
    IN  R[Len(data)]

(***************************************************************************)
(* deserialize with handlers that change the document: every handler of    *)
(* the table is (form, value) => form.appendChild(<input type="text"       *)
(* name=n>), for one name n.                                               *)
(***************************************************************************)
\* The position of the last control nested in the form, 0 when there is none.
LastNested(f) ==
    IF \E i \in 1..Len(f) : IsNested(f[i])
    THEN CHOOSE i \in 1..Len(f) : IsNested(f[i]) /\ \A j \in (i + 1)..Len(f) : ~IsNested(f[j])
    ELSE 0

\* form.appendChild(input): the new control becomes the last control nested in
\* the form.
appendChild(f, c) ==
    LET k == LastNested(f)
    IN  SubSeq(f, 1, k) \o <<c>> \o SubSeq(f, k + 1, Len(f))

NewInput(n) == Control("INPUT", "text", n, "nested", "", FALSE, {})

\* applySpecialHandlers with the appending handlers: the form after the calls, the
\* calls, the names handled and the positions of the controls added.
applyAddingHandlers(f, data, valueFunctions, n) ==
    LET h == applySpecialHandlers(data, valueFunctions)
        A[i \in 0..Len(h.calls)] ==
            IF i = 0 THEN [f |-> f, added |-> <<>>]
            ELSE [f |-> appendChild(A[i - 1].f, NewInput(n)),
                  added |-> Append(A[i - 1].added, LastNested(A[i - 1].f) + 1)]
    IN  [f |-> A[Len(h.calls)].f, added |-> A[Len(h.calls)].added,
         calls |-> h.calls, speciallyHandled |-> h.speciallyHandled]

\* A deserialize that resolves the controls of every name before the handlers run;
\* C24 fails under it.
deserializeAddingPrecomputed(f, id, data, valueFunctions, n, skipExternal) ==
    LET h == applyAddingHandlers(f, data, valueFunctions, n)
        \* the position after the handlers of the control that stood at p before them
        Moved(p) == IF p > LastNested(f) THEN p + Len(h.added) ELSE p
        Before(name) == getFormElements(f, id, skipExternal, TRUE, name)
        R[i \in 0..Len(data)] ==
            IF i = 0 THEN [f |-> h.f, err |-> FALSE, writes |-> <<>>, calls |-> h.calls,
                           events |-> CallEvents(h.calls)]
            ELSE IF R[i - 1].err \/ skipsName(h.speciallyHandled, data[i].k)
            THEN R[i - 1]
            ELSE applyInputs(R[i - 1],
                             [j \in 1..Len(Before(data[i].k)) |-> Moved(Before(data[i].k)[j])],
                             data[i].v)
    IN  [f |-> R[Len(data)].f, err |-> R[Len(data)].err, writes |-> R[Len(data)].writes,
         calls |-> h.calls, events |-> R[Len(data)].events, added |-> h.added]

deserializeAdding(f, id, data, valueFunctions, n, skipExternal) ==
    LET h == applyAddingHandlers(f, data, valueFunctions, n)
        R[i \in 0..Len(data)] ==
            IF i = 0 THEN [f |-> h.f, err |-> FALSE, writes |-> <<>>, calls |-> h.calls,
                           events |-> CallEvents(h.calls)]
            ELSE IF R[i - 1].err \/ skipsName(h.speciallyHandled, data[i].k)
            THEN R[i - 1]
            ELSE applyInputs(R[i - 1],
                             getFormElements(R[i - 1].f, id, skipExternal, TRUE, data[i].k),
                             data[i].v)
    IN  [f |-> R[Len(data)].f, err |-> R[Len(data)].err, writes |-> R[Len(data)].writes,
         calls |-> h.calls, events |-> R[Len(data)].events, added |-> h.added]

(***************************************************************************)
(* JSON.stringify and JSON.parse of a record.  The text is a sequence of   *)
(* tokens; a string literal is one token carrying its content.             *)
(***************************************************************************)
Tok(t)     == [tok |-> t, s |-> ""]
StrTok(s)  == [tok |-> "string", s |-> s]

stringifyValue(v) ==
    IF v.t = "str" THEN StrTok(v.s)
    ELSE IF v.t = "bool" THEN Tok(v.s)
    ELSE Tok("null")

\* [v1,v2,...]
stringifyList(values) ==
    LET L[i \in 0..Len(values)] ==
            IF i = 0 THEN <<Tok("[")>>
            ELSE IF i = 1 THEN Append(L[0], stringifyValue(values[1]))
            ELSE L[i - 1] \o <<Tok(","), stringifyValue(values[i])>>
    IN  Append(L[Len(values)], Tok("]"))

\* {"k1":[...],"k2":[...]}
stringify(data) ==
    LET M[i \in 0..Len(data)] ==
            IF i = 0 THEN <<Tok("{")>>
            ELSE (IF i = 1 THEN M[0] ELSE Append(M[i - 1], Tok(",")))
                 \o <<StrTok(data[i].k), Tok(":")>> \o stringifyList(data[i].v)
    IN  Append(M[Len(data)], Tok("}"))

parseValue(tk) ==
    IF tk.tok = "string" THEN Str(tk.s)
    ELSE IF tk.tok = "true" THEN Bool(TRUE)
    ELSE IF tk.tok = "false" THEN Bool(FALSE)
    ELSE Undefined

\* Reads the text from position i (just after a "[") to the matching "]":
\* the values read and the position after the "]".
RECURSIVE parseList(_, _, _)
parseList(text, i, acc) ==
    IF i > Len(text) THEN [v |-> acc, next |-> i]
    ELSE IF text[i].tok = "]" THEN [v |-> acc, next |-> i + 1]
    ELSE IF text[i].tok = "," THEN parseList(text, i + 1, acc)
    ELSE parseList(text, i + 1, Append(acc, parseValue(text[i])))

\* Reads the members of the object from position i to the closing "}".
RECURSIVE parseMembers(_, _, _)
parseMembers(text, i, acc) ==
    IF i > Len(text) \/ text[i].tok = "}" THEN acc
    ELSE IF text[i].tok = "," THEN parseMembers(text, i + 1, acc)
    ELSE LET list == parseList(text, i + 3, <<>>)
         IN  parseMembers(text, list.next, Append(acc, [k |-> text[i].s, v |-> list.v]))

parse(text) == parseMembers(text, 2, <<>>)

(***************************************************************************)
(* The release with name filters (src/unnamed/part_000): serialize walks   *)
(* form.elements, the controls owned by the form in document order.        *)
(***************************************************************************)
\* A filter whose include list is not consulted; C10 fails under it.
isNameFilteredExcludeOnly(name, include, exclude) ==
    IF name = "" THEN TRUE
    ELSE IF SeqIncludes(exclude, name) THEN TRUE
    ELSE FALSE

isNameFiltered(name, include, exclude) ==
    IF name = "" THEN TRUE
    ELSE IF SeqIncludes(exclude, name) THEN TRUE
    ELSE IF Len(include) > 0 /\ ~SeqIncludes(include, name) THEN TRUE
    ELSE FALSE

pushToArray(dict, key, value) ==
    Push(IF HasKey(dict, key) THEN dict ELSE SetEmpty(dict, key), key, value)

RECURSIVE pushAllToArray(_, _, _)
pushAllToArray(dict, key, values) ==
    IF values = <<>> THEN dict
    ELSE pushAllToArray(pushToArray(dict, key, Head(values)), key, Tail(values))

serializeElement2(data, element, include, exclude) ==
    IF notSerialized(element)
    THEN data
    ELSE IF isNameFiltered(element.name, include, exclude)
    THEN data
    ELSE IF element.tag = "INPUT"
         THEN IF element.type = "radio"
              THEN IF element.checked
                   THEN pushToArray(data, element.name, Str(element.value))
                   ELSE data
              ELSE IF element.type = "checkbox"
              THEN pushToArray(data, element.name, Bool(element.checked))
              ELSE pushToArray(data, element.name, Str(element.value))
         ELSE IF element.tag = "TEXTAREA"
         THEN pushToArray(data, element.name, Str(element.value))
         ELSE IF element.tag = "SELECT"
         THEN IF element.type = "select-multiple"
              THEN pushAllToArray(data, element.name, SelectedOptions(element))
              ELSE pushToArray(data, element.name, Str(SelectValue(element)))
         ELSE data

serialize2(f, include, exclude) ==
    LET D[i \in 0..Len(f)] ==
            IF i = 0 THEN <<>> ELSE serializeElement2(D[i - 1], f[i], include, exclude)
    IN  D[Len(f)]

\* applySpecialHandlers(data, form, options) of the release with name filters,
\* without its filter test; C12 fails under it.
applySpecialHandlers2Unfiltered(data, valueFunctions, include, exclude) ==
    applySpecialHandlers(data, valueFunctions)

\* applySpecialHandlers(data, form, options) of the release with name filters: a
\* handler whose name is filtered is not called and its name is not handled.
applySpecialHandlers2(data, valueFunctions, include, exclude) ==
    LET H[i \in 0..Len(valueFunctions)] ==
            IF i = 0 THEN [calls |-> <<>>, speciallyHandled |-> <<>>]
            ELSE LET fnName == valueFunctions[i]
                 IN  IF HasKey(data, fnName)
                     THEN IF isNameFiltered(fnName, include, exclude)
                          THEN H[i - 1]
                          ELSE [calls |-> H[i - 1].calls
                                            \o HandlerCalls(fnName, Get(data, fnName)),
                                speciallyHandled |-> Append(H[i - 1].speciallyHandled, fnName)]
                     ELSE H[i - 1]
    IN  H[Len(valueFunctions)]

\* [...form.elements].filter(elem => elem.name === name)
elementsNamed(f, name) ==
    LET E[i \in 0..Len(f)] ==
            IF i = 0 THEN <<>>
            ELSE IF f[i].name = name THEN Append(E[i - 1], i) ELSE E[i - 1]
    IN  E[Len(f)]

\* A deserialize whose default restoration does not consult the lists; C11 fails
\* under it.
deserialize2Unfiltered(f, data, valueFunctions, include, exclude) ==
    LET h == applySpecialHandlers2(data, valueFunctions, include, exclude)
        R[i \in 0..Len(data)] ==
            IF i = 0 THEN [f |-> f, err |-> FALSE, writes |-> <<>>, calls |-> h.calls,
                           events |-> CallEvents(h.calls)]
            ELSE IF R[i - 1].err \/ SeqIncludes(h.speciallyHandled, data[i].k)
            THEN R[i - 1]
            ELSE applyInputs(R[i - 1], elementsNamed(R[i - 1].f, data[i].k), data[i].v)
    IN  R[Len(data)]

\* deserialize(form, data, {valueFunctions, include, exclude}) of the release with
\* name filters.
deserialize2(f, data, valueFunctions, include, exclude) ==
    LET h == applySpecialHandlers2(data, valueFunctions, include, exclude)
        R[i \in 0..Len(data)] ==
            IF i = 0 THEN [f |-> f, err |-> FALSE, writes |-> <<>>, calls |-> h.calls,
                           events |-> CallEvents(h.calls)]
            ELSE IF R[i - 1].err THEN R[i - 1]
            ELSE IF isNameFiltered(data[i].k, include, exclude) THEN R[i - 1]
            ELSE IF SeqIncludes(h.speciallyHandled, data[i].k) THEN R[i - 1]
            ELSE applyInputs(R[i - 1], elementsNamed(R[i - 1].f, data[i].k), data[i].v)
    IN  R[Len(data)]

(***************************************************************************)
(* The release with predicate filters (includeFilter, excludeFilter).  Its *)
(* source is not part of the repository's files; it is modelled from the   *)
(* specification: a control is excluded if it matches the deny predicate,  *)
(* or if an allow predicate is given and the control does not match it.    *)
(* A predicate is named by what it tests; "" is no predicate.              *)
(***************************************************************************)
Predicates == {"", "a", "text"}
\* element => element.name === p, or element => element.type === 'text'
Holds(p, element) == IF p = "text" THEN element.type = "text" ELSE element.name = p

\* A filter that consults the deny predicate only; C13 fails under it.
isElementFilteredDenyOnly(element, includeFilter, excludeFilter) ==
    excludeFilter # "" /\ Holds(excludeFilter, element)

isElementFiltered(element, includeFilter, excludeFilter) ==
    \/ excludeFilter # "" /\ Holds(excludeFilter, element)
    \/ includeFilter # "" /\ ~Holds(includeFilter, element)

serializeElement3(data, element, includeFilter, excludeFilter) ==
    IF isElementFiltered(element, includeFilter, excludeFilter)
    THEN data
    ELSE serializeElement2(data, element, <<>>, <<>>)

serialize3(f, includeFilter, excludeFilter) ==
    LET D[i \in 0..Len(f)] ==
            IF i = 0 THEN <<>>
            ELSE serializeElement3(D[i - 1], f[i], includeFilter, excludeFilter)
    IN  D[Len(f)]

\* The controls of a name that the predicates let through, in document order.
elementsNamed3(f, name, includeFilter, excludeFilter) ==
    LET E[i \in 0..Len(f)] ==
            IF i = 0 THEN <<>>
            ELSE IF f[i].name = name /\ ~isElementFiltered(f[i], includeFilter, excludeFilter)
                 THEN Append(E[i - 1], i)
                 ELSE E[i - 1]
    IN  E[Len(f)]

deserialize3(f, data, includeFilter, excludeFilter) ==
    LET R[i \in 0..Len(data)] ==
            IF i = 0 THEN [f |-> f, err |-> FALSE, writes |-> <<>>, calls |-> <<>>,
                           events |-> <<>>]
            ELSE IF R[i - 1].err THEN R[i - 1]
            ELSE IF isNameFiltered(data[i].k, <<>>, <<>>) THEN R[i - 1]
            ELSE applyInputs(R[i - 1],
                             elementsNamed3(R[i - 1].f, data[i].k, includeFilter,
                                            excludeFilter),
                             data[i].v)
    IN  R[Len(data)]

\* The errors an operation raises.
ConfigError == "form persistence requires a form id or uuid"
DomError(raised) == IF raised THEN "InvalidStateError" ELSE ""

(***************************************************************************)
(* What the last operation was given and what it did.                      *)
(***************************************************************************)
NoLast ==
    [op |-> "none",           \* the operation
     pre |-> <<>>,            \* the form before the call
     fresh |-> <<>>,          \* the form of the reloaded page before it is restored
     skipExternal |-> FALSE, include |-> <<>>, exclude |-> <<>>,
     valueFunctions |-> <<>>, \* the options of the call
     data |-> <<>>,           \* the record: serialize's result, deserialize's argument
     calls |-> <<>>,          \* handler calls made, in order
     writes |-> <<>>,         \* positions applyValues was called on, in order
     attribute |-> FALSE, value |-> "",   \* the selector arguments of getFormElements
     elements |-> <<>>,       \* positions getFormElements returned, in order
     events |-> <<>>,         \* handler calls and applyValues calls, in order
     added |-> <<>>,          \* positions of the controls a handler added to the form
     addedName |-> "",        \* the name a handler gives the controls it adds
     accesses |-> <<>>,       \* getItem / setItem / removeItem calls made, in order
     err |-> ""]              \* the error the call raised, "" when it returned

(***************************************************************************)
(* Options and storage.                                                    *)
(***************************************************************************)
\* The defaults persist merges the caller's options into.
DefaultOptions ==
    [uuid |-> "", useSessionStorage |-> FALSE, saveOnSubmit |-> FALSE,
     valueFunctions |-> <<>>, skipExternal |-> FALSE]

Scopes == {"localStorage", "sessionStorage"}
\* A store is the set of its entries [key, text], one per key present.
EmptyStorage == [sc \in Scopes |-> {}]
\* getItem returns null for an absent key; null is modelled as the empty text,
\* which no JSON.stringify produces and which `if (json)` treats like null.
Null == <<>>
getItem(store, key) ==
    IF \E e \in store : e.key = key
    THEN (CHOOSE e \in store : e.key = key).text
    ELSE Null
setItem(store, key, text) ==
    {e \in store : e.key # key} \cup {[key |-> key, text |-> text]}
removeItem(store, key) == {e \in store : e.key # key}

\* A scope choice that ignores useSessionStorage; C14 fails under it.
scopeOfLocalOnly(config) == "localStorage"

\* let storage = config.useSessionStorage ? sessionStorage : localStorage
scopeOf(config) == IF config.useSessionStorage THEN "sessionStorage" ELSE "localStorage"

\* A getStorageKey without the identity check; C2 fails under it.
getStorageKeyNeverThrows(id, uuid) == FALSE
\* A getStorageKey whose prefix depends on where the identity came from; C3 fails
\* under it.
getStorageKeyBySource(id, uuid) ==
    [prefix |-> IF uuid # "" THEN "uuid#" ELSE "form#", id |-> IF uuid # "" THEN uuid ELSE id]

\* getStorageKey(form, uuid): whether it throws, and the key it returns otherwise.
getStorageKeyThrows(id, uuid) == uuid = "" /\ id = ""
getStorageKey(id, uuid) == [prefix |-> "form#", id |-> IF uuid # "" THEN uuid ELSE id]

Access(method, config) == [method |-> method, scope |-> scopeOf(config)]

(***************************************************************************)
(* save, load and clearStorage: the storage and the form after the call,   *)
(* the storage accesses made and the error raised.                         *)
(***************************************************************************)
Outcome(f, st, data, calls, writes, accesses, err) ==
    [f |-> f, storage |-> st, data |-> data, calls |-> calls, writes |-> writes,
     accesses |-> accesses, err |-> err]

\* A save that keeps an entry already stored; C8 fails under it.
saveKeepsExisting(f, id, st, config) ==
    LET data == serialize(f, id, config.skipExternal)
        sc == scopeOf(config)
        key == getStorageKey(id, config.uuid)
    IN  IF getStorageKeyThrows(id, config.uuid)
        THEN Outcome(f, st, data, <<>>, <<>>, <<>>, ConfigError)
        ELSE Outcome(f,
                     [st EXCEPT ![sc] = IF getItem(@, key) # Null THEN @
                                        ELSE setItem(@, key, stringify(data))],
                     data, <<>>, <<>>, <<Access("setItem", config)>>, "")

save(f, id, st, config) ==
    LET data == serialize(f, id, config.skipExternal)
        sc == scopeOf(config)
    IN  IF getStorageKeyThrows(id, config.uuid)
        THEN Outcome(f, st, data, <<>>, <<>>, <<>>, ConfigError)
        ELSE Outcome(f,
                     [st EXCEPT ![sc] = setItem(@, getStorageKey(id, config.uuid),
                                                stringify(data))],
                     data, <<>>, <<>>, <<Access("setItem", config)>>, "")

load(f, id, st, config) ==
    LET sc == scopeOf(config)
    IN  IF getStorageKeyThrows(id, config.uuid)
        THEN Outcome(f, st, <<>>, <<>>, <<>>, <<>>, ConfigError)
        ELSE LET json == getItem(st[sc], getStorageKey(id, config.uuid))
             IN  IF json # Null
                 THEN LET data == parse(json)
                          r == deserialize(f, id, data, config.valueFunctions,
                                           config.skipExternal)
                      IN  Outcome(r.f, st, data, r.calls, r.writes,
                                  <<Access("getItem", config)>>, DomError(r.err))
                 ELSE Outcome(f, st, <<>>, <<>>, <<>>, <<Access("getItem", config)>>, "")

\* A clearStorage that removes the entry from both scopes; C15 fails under it.
clearStorageBothScopes(f, id, st, config) ==
    IF getStorageKeyThrows(id, config.uuid)
    THEN Outcome(f, st, <<>>, <<>>, <<>>, <<>>, ConfigError)
    ELSE Outcome(f,
                 [sc \in Scopes |-> removeItem(st[sc], getStorageKey(id, config.uuid))],
                 <<>>, <<>>, <<>>, <<Access("removeItem", config)>>, "")

clearStorage(f, id, st, config) ==
    LET sc == scopeOf(config)
    IN  IF getStorageKeyThrows(id, config.uuid)
        THEN Outcome(f, st, <<>>, <<>>, <<>>, <<>>, ConfigError)
        ELSE Outcome(f, [st EXCEPT ![sc] = removeItem(@, getStorageKey(id, config.uuid))],
                     <<>>, <<>>, <<>>, <<Access("removeItem", config)>>, "")

\* The form as it was when a scope's entry was written by this page; none when the
\* entry was removed or never written by it.
NoSnapshot == [has |-> FALSE, f |-> <<>>, by |-> ""]
NothingWritten == [sc \in Scopes |-> NoSnapshot]
noteWrites(w, accesses, f, config) ==
    LET W[i \in 0..Len(accesses)] ==
            IF i = 0 THEN w
            ELSE IF accesses[i].method = "setItem"
            THEN [W[i - 1] EXCEPT ![accesses[i].scope] =
                     [has |-> TRUE, f |-> f,
                      by |-> IF config.uuid # "" THEN "uuid" ELSE "id"]]
            ELSE IF accesses[i].method = "removeItem"
            THEN [W[i - 1] EXCEPT ![accesses[i].scope] = NoSnapshot]
            ELSE W[i - 1]
    IN  W[Len(accesses)]

\* The operation's outcome as the record of the last operation.
Did(op, pre, config, o) ==
    [NoLast EXCEPT !.op = op, !.pre = pre, !.skipExternal = config.skipExternal,
                   !.valueFunctions = config.valueFunctions, !.data = o.data,
                   !.calls = o.calls, !.writes = o.writes, !.accesses = o.accesses,
                   !.err = o.err]

(***************************************************************************)
(* Codec specification: every well-formed form of at most MaxControls      *)
(* controls, in every state, and one call of serialize or of               *)
(* deserialize(form, serialize(form)) on it.  Filter specification: one    *)
(* call of the serialize with include and exclude lists.                   *)
(***************************************************************************)
FormIds == {"", "f"}

InitCodec ==
    /\ formId \in FormIds
    /\ \E n \in 0..MaxControls : form \in [1..n -> ControlStates]
    /\ WellFormed(form, formId)
    /\ options = DefaultOptions
    /\ storage = EmptyStorage
    /\ regs = <<>>
    /\ written = NothingWritten
    /\ last = NoLast
    /\ nops = 0

\* A serialize that unchecks what it has read; C16 fails under it.
SerializeUnchecking ==
    /\ nops = 0
    /\ \E skipExternal \in BOOLEAN :
          last' = [NoLast EXCEPT !.op = "serialize", !.pre = form,
                                 !.skipExternal = skipExternal,
                                 !.data = serialize(form, formId, skipExternal)]
    /\ form' = [i \in 1..Len(form) |-> [form[i] EXCEPT !.checked = FALSE]]
    /\ nops' = 1
    /\ UNCHANGED <<formId, options, storage, regs, written>>

\* FormPersistence.serialize(form, {skipExternal})
Serialize ==
    /\ nops = 0
    /\ \E skipExternal \in BOOLEAN :
          last' = [NoLast EXCEPT !.op = "serialize", !.pre = form,
                                 !.skipExternal = skipExternal,
                                 !.data = serialize(form, formId, skipExternal)]
    /\ nops' = 1
    /\ UNCHANGED <<form, formId, options, storage, regs, written>>

FilterLists == {<<>>, <<"a">>, <<"b">>}

\* form.elements lists the controls the form owns in document order, wherever they
\* stand: the forms of the filter specification have their controls nested.
InitFilter ==
    /\ InitCodec
    /\ formId = "f"
    /\ \A i \in 1..Len(form) : form[i].loc = "nested"

\* FormPersistence.serialize(form, {include, exclude}) of the release with name filters
Serialize2 ==
    /\ nops = 0
    /\ \E include \in FilterLists, exclude \in FilterLists :
          last' = [NoLast EXCEPT !.op = "serialize2", !.pre = form,
                                 !.include = include, !.exclude = exclude,
                                 !.data = serialize2(form, include, exclude)]
    /\ nops' = 1
    /\ UNCHANGED <<form, formId, options, storage, regs, written>>

\* FormPersistence.deserialize(form, FormPersistence.serialize(form, options), options)
RoundTrip ==
    /\ nops = 0
    /\ \E skipExternal \in BOOLEAN :
          LET data == serialize(form, formId, skipExternal)
              r == deserialize(form, formId, data, <<>>, skipExternal)
          IN  /\ form' = r.f
              /\ last' = [NoLast EXCEPT !.op = "roundtrip", !.pre = form,
                                        !.skipExternal = skipExternal, !.data = data,
                                        !.calls = r.calls, !.writes = r.writes,
                                        !.err = DomError(r.err)]
    /\ nops' = 1
    /\ UNCHANGED <<formId, options, storage, regs, written>>

NextCodec == Serialize \/ RoundTrip

SpecCodec == InitCodec /\ [][NextCodec]_vars

SpecFilter == InitFilter /\ [][Serialize2]_vars

(***************************************************************************)
(* Deserialize specification: the same forms, and one call of deserialize  *)
(* with a record and a handler table drawn from small sets.                *)
(***************************************************************************)
RecordLists ==
    {<<>>, <<Str("x")>>, <<Str("y"), Str("x")>>, <<Bool(TRUE)>>, <<Bool(FALSE), Bool(TRUE)>>}
Records ==
    {<<>>}
    \cup {<<[k |-> "a", v |-> l]>> : l \in RecordLists}
    \cup {<<[k |-> "a", v |-> l], [k |-> "b", v |-> <<Str("y")>>]>> : l \in RecordLists}
\* The names of a valueFunctions table, in the order the table defines them.
HandlerTables == {<<>>, <<"a">>, <<"b", "a">>}

\* FormPersistence.deserialize(form, data, {valueFunctions, skipExternal})
Deserialize ==
    /\ nops = 0
    /\ \E data \in Records, valueFunctions \in HandlerTables, skipExternal \in BOOLEAN :
          LET r == deserialize(form, formId, data, valueFunctions, skipExternal)
          IN  /\ form' = r.f
              /\ last' = [NoLast EXCEPT !.op = "deserialize", !.pre = form,
                                        !.skipExternal = skipExternal,
                                        !.valueFunctions = valueFunctions,
                                        !.data = data, !.calls = r.calls,
                                        !.writes = r.writes, !.events = r.events,
                                        !.err = DomError(r.err)]
    /\ nops' = 1
    /\ UNCHANGED <<formId, options, storage, regs, written>>

SpecDeserialize == InitCodec /\ [][Deserialize]_vars

\* Forms with button-like inputs: <input type="submit|button|reset|image"> with or
\* without a name, its value attribute being its label, next to text inputs.
ButtonTypes == {"submit", "button", "reset", "image"}
ButtonValues == {"", "Go"}
ButtonControls ==
    {Control("INPUT", t, n, "nested", v, FALSE, {}) :
        t \in ButtonTypes, n \in Names, v \in ButtonValues}
    \cup {Control("INPUT", "text", n, "nested", v, FALSE, {}) :
            n \in Names, v \in TextValues}

InitButtons ==
    /\ formId \in FormIds
    /\ \E n \in 0..MaxControls : form \in [1..n -> ButtonControls]
    /\ options = DefaultOptions
    /\ storage = EmptyStorage
    /\ regs = <<>>
    /\ written = NothingWritten
    /\ last = NoLast
    /\ nops = 0

SpecButtons == InitButtons /\ [][Serialize]_vars

(***************************************************************************)
(* Resolver specification: documents of text inputs and checkboxes in      *)
(* every placement (nested, elsewhere with form=<id>, nested and carrying  *)
(* form=<id>), and one call of getFormElements, of serialize or of         *)
(* deserialize on them.                                                    *)
(***************************************************************************)
Placements == Locs \cup {NestedWithForm}
PlacedControls ==
    {Control("INPUT", "text", n, l, v, FALSE, {}) :
        n \in Names, l \in Placements, v \in TextValues}
    \cup {Control("INPUT", "checkbox", n, l, "on", c, {}) :
            n \in Names, l \in Placements, c \in BOOLEAN}

InitResolver ==
    /\ formId \in FormIds
    /\ \E n \in 0..MaxControls : form \in [1..n -> PlacedControls]
    /\ WellFormed(form, formId)
    /\ options = DefaultOptions
    /\ storage = EmptyStorage
    /\ regs = <<>>
    /\ written = NothingWritten
    /\ last = NoLast
    /\ nops = 0

\* getFormElements(form, skipExternal), getFormElements(form, skipExternal, 'name', value)
GetFormElements ==
    /\ nops = 0
    /\ \E skipExternal \in BOOLEAN, attribute \in BOOLEAN, value \in Names :
          last' = [NoLast EXCEPT !.op = "getFormElements", !.pre = form,
                                 !.skipExternal = skipExternal,
                                 !.attribute = attribute, !.value = value,
                                 !.elements = getFormElements(form, formId, skipExternal,
                                                              attribute, value)]
    /\ nops' = 1
    /\ UNCHANGED <<form, formId, options, storage, regs, written>>

\* FormPersistence.deserialize(form, data, {valueFunctions, skipExternal}) with
\* handlers that append a text input named n to the form.
DeserializeAdding ==
    /\ nops = 0
    /\ \E data \in Records, valueFunctions \in HandlerTables, n \in Names \ {""},
          skipExternal \in BOOLEAN :
          LET r == deserializeAdding(form, formId, data, valueFunctions, n, skipExternal)
          IN  /\ form' = r.f
              /\ last' = [NoLast EXCEPT !.op = "deserializeAdding", !.pre = form,
                                        !.skipExternal = skipExternal,
                                        !.valueFunctions = valueFunctions,
                                        !.data = data, !.calls = r.calls,
                                        !.writes = r.writes, !.events = r.events,
                                        !.added = r.added, !.addedName = n,
                                        !.err = DomError(r.err)]
    /\ nops' = 1
    /\ UNCHANGED <<formId, options, storage, regs, written>>

SpecAdding == InitResolver /\ [][DeserializeAdding]_vars

NextResolver == GetFormElements \/ Serialize \/ Deserialize

SpecResolver == InitResolver /\ [][NextResolver]_vars

\* The two conversions, each called once on any form, with or without an id.
NextConversion == Serialize \/ Deserialize

SpecConversion == InitCodec /\ [][NextConversion]_vars

\* FormPersistence.deserialize(form, data, {valueFunctions, include, exclude}) of the
\* release with name filters
Deserialize2 ==
    /\ nops = 0
    /\ \E data \in Records, valueFunctions \in HandlerTables,
          include \in FilterLists, exclude \in FilterLists :
          LET r == deserialize2(form, data, valueFunctions, include, exclude)
          IN  /\ form' = r.f
              /\ last' = [NoLast EXCEPT !.op = "deserialize2", !.pre = form,
                                        !.include = include, !.exclude = exclude,
                                        !.valueFunctions = valueFunctions,
                                        !.data = data, !.calls = r.calls,
                                        !.writes = r.writes, !.err = DomError(r.err)]
    /\ nops' = 1
    /\ UNCHANGED <<formId, options, storage, regs, written>>

SpecFilterDeserialize == InitFilter /\ [][Deserialize2]_vars

\* The copies of a form a reloaded page can show: the same controls in any state.
FreshCopies(f) ==
    {g \in [1..Len(f) -> UNION {StatesOf(f[i]) : i \in 1..Len(f)}] :
        SameStructure(f, g) /\ WellFormed(g, "f")}

\* testPersistenceFilters: the form is saved with the predicates, the page is
\* reloaded and the record is restored with the same predicates.
SaveReload3 ==
    /\ nops = 0
    /\ \E includeFilter \in Predicates, excludeFilter \in Predicates :
       \E fresh \in FreshCopies(form) :
          LET data == serialize3(form, includeFilter, excludeFilter)
              r == deserialize3(fresh, data, includeFilter, excludeFilter)
          IN  /\ form' = r.f
              /\ last' = [NoLast EXCEPT !.op = "saveReload3", !.pre = form,
                                        !.fresh = fresh,
                                        !.include = <<includeFilter>>,
                                        !.exclude = <<excludeFilter>>,
                                        !.data = data, !.writes = r.writes,
                                        !.err = DomError(r.err)]
    /\ nops' = 1
    /\ UNCHANGED <<formId, options, storage, regs, written>>

SpecPredicate == InitFilter /\ [][SaveReload3]_vars

(***************************************************************************)
(* persist and the listeners it installs.  A registration keeps the config *)
(* its closures captured and which of its listeners are still attached;    *)
(* the counters record what was delivered to it and how often its saveForm *)
(* ran.                                                                    *)
(***************************************************************************)
Registration(config) ==
    [config |-> config,
     beforeunload |-> TRUE,            \* saveFormBeforeUnload is attached to window
     unload |-> TRUE,                  \* saveForm is attached to window
     submit |-> ~config.saveOnSubmit,  \* the clearing listener is attached to the form
     saves |-> 0,                      \* runs of saveForm
     nBeforeunload |-> 0,              \* beforeunload events dispatched since persist
     nUnload |-> 0,                    \* unload events dispatched since persist
     nUnloadFirst |-> 0,               \* of these, the ones before any beforeunload
     submitted |-> FALSE]              \* a submit event was dispatched since persist

\* A saveFormBeforeUnload that leaves the unload listener attached; C7 fails
\* under it.
onBeforeunloadKeepsUnload(r) ==
    IF r.beforeunload
    THEN [r EXCEPT !.saves = @ + 1, !.nBeforeunload = @ + 1]
    ELSE [r EXCEPT !.nBeforeunload = @ + 1]

\* The listeners of one registration on a beforeunload event.
onBeforeunload(r) ==
    IF r.beforeunload
    THEN [r EXCEPT !.unload = FALSE, !.saves = @ + 1, !.nBeforeunload = @ + 1]
    ELSE [r EXCEPT !.nBeforeunload = @ + 1]

\* The listeners of one registration on an unload event.
onUnload(r) ==
    LET counted == [r EXCEPT !.nUnload = @ + 1,
                             !.nUnloadFirst = IF r.nBeforeunload = 0 THEN @ + 1 ELSE @]
    IN  IF r.unload THEN [counted EXCEPT !.saves = @ + 1] ELSE counted

\* A submit listener that detaches the beforeunload listener only; C5 fails
\* under it.
onSubmitKeepsUnload(r) ==
    IF r.submit
    THEN [r EXCEPT !.beforeunload = FALSE, !.submitted = TRUE]
    ELSE [r EXCEPT !.submitted = TRUE]

\* The listeners of one registration on a submit event of the form.
onSubmit(r) ==
    IF r.submit
    THEN [r EXCEPT !.beforeunload = FALSE, !.unload = FALSE, !.submitted = TRUE]
    ELSE [r EXCEPT !.submitted = TRUE]

\* Dispatching an event: the listeners run in the order persist attached them.
\* Runs(r) says whether the registration's listener for the event is attached,
\* Effect its storage operation, After the registration once its listeners ran.
dispatch(f, id, st, rs, Runs(_), Effect(_, _, _, _), After(_)) ==
    LET S[i \in 0..Len(rs)] ==
            IF i = 0 THEN [storage |-> st, accesses |-> <<>>]
            ELSE IF Runs(rs[i])
                 THEN LET o == Effect(f, id, S[i - 1].storage, rs[i].config)
                      IN  [storage |-> o.storage,
                           accesses |-> S[i - 1].accesses \o o.accesses]
                 ELSE S[i - 1]
    IN  [storage |-> S[Len(rs)].storage, accesses |-> S[Len(rs)].accesses,
         regs |-> [i \in 1..Len(rs) |-> After(rs[i])]]

(***************************************************************************)
(* Lifecycle specification: one page with a small form, one options        *)
(* object, and any sequence of at most MaxOps calls, edits and events.     *)
(***************************************************************************)
\* The forms of the test suite, in the state their markup gives them (a password or
\* file input holding what the user entered, a single select showing its first
\* option, the external form with the nested input of the later fixture); the name
\* 'test' is "a", 'test2' is "b".
SimpleForm         == <<Control("INPUT", "text", "a", "nested", "", FALSE, {})>>
ExternalForm       == <<Control("INPUT", "text", "b", "nested", "", FALSE, {}),
                        Control("INPUT", "text", "a", "external", "", FALSE, {})>>
CheckboxForm       == <<Control("INPUT", "checkbox", "a", "nested", "on", FALSE, {})>>
RadioForm          == <<Control("INPUT", "radio", "a", "nested", "x", TRUE, {}),
                        Control("INPUT", "radio", "a", "nested", "y", FALSE, {})>>
TextareaForm       == <<Control("TEXTAREA", "textarea", "a", "nested", "", FALSE, {})>>
SelectForm         == <<Control("SELECT", "select-one", "a", "nested", "", FALSE, {"x"})>>
SelectMultipleForm == <<Control("SELECT", "select-multiple", "a", "nested", "", FALSE, {})>>
FileForm           == <<Control("INPUT", "file", "a", "nested", SecretValue, FALSE, {})>>
PasswordForm       == <<Control("INPUT", "password", "a", "nested", SecretValue, FALSE, {})>>
PageForms ==
    {SimpleForm, ExternalForm, CheckboxForm, RadioForm, TextareaForm, SelectForm,
     SelectMultipleForm, FileForm, PasswordForm}

\* A record left in storage by an earlier visit of the page.
PriorRecord == <<[k |-> "a", v |-> <<Str("y")>>], [k |-> "b", v |-> <<Str("x")>>]>>
PageKey == [prefix |-> "form#", id |-> "k"]
PriorStores == {{}, {[key |-> PageKey, text |-> stringify(PriorRecord)]}}

PageOptions ==
    [uuid : {"", "k"}, useSessionStorage : BOOLEAN, saveOnSubmit : BOOLEAN,
     valueFunctions : {<<>>, <<"a">>}, skipExternal : BOOLEAN]

Init ==
    /\ formId \in {"", "k"}
    /\ form \in {f \in PageForms : WellFormed(f, formId)}
    /\ options \in PageOptions
    /\ options.skipExternal => form = ExternalForm
    /\ storage \in [Scopes -> PriorStores]
    /\ regs = <<>>
    /\ written = NothingWritten
    /\ last = NoLast
    /\ nops = 0

\* The user changes the state of one control; checking a radio unchecks its group.
Edit ==
    /\ nops < MaxOps
    /\ \E i \in 1..Len(form) : \E d \in StatesOf(form[i]) \ {form[i]} :
          form' = IF IsRadio(d) THEN SetChecked(form, i, d.checked)
                  ELSE [form EXCEPT ![i] = d]
    /\ last' = [NoLast EXCEPT !.op = "edit", !.pre = form]
    /\ nops' = nops + 1
    /\ UNCHANGED <<formId, options, storage, regs, written>>

\* The page is loaded again: a fresh copy of the form, no listeners.  The new page
\* may identify the form by its id instead of the uuid option.
FreshPage ==
    /\ nops < MaxOps
    /\ form' = CHOOSE f \in PageForms : SameStructure(f, form)
    /\ regs' = <<>>
    /\ \/ UNCHANGED <<formId, options>>
       \/ /\ options.uuid # "" /\ formId = ""
          /\ formId' = options.uuid
          /\ options' = [options EXCEPT !.uuid = ""]
    /\ last' = [NoLast EXCEPT !.op = "freshPage", !.pre = form]
    /\ nops' = nops + 1
    /\ UNCHANGED <<storage, written>>

\* FormPersistence.save(form, options)
Save ==
    /\ nops < MaxOps
    /\ LET o == save(form, formId, storage, options)
       IN  /\ storage' = o.storage
           /\ last' = Did("save", form, options, o)
           /\ written' = noteWrites(written, o.accesses, form, options)
    /\ nops' = nops + 1
    /\ UNCHANGED <<form, formId, options, regs>>

\* FormPersistence.load(form, options)
Load ==
    /\ nops < MaxOps
    /\ LET o == load(form, formId, storage, options)
       IN  /\ form' = o.f
           /\ last' = Did("load", form, options, o)
    /\ nops' = nops + 1
    /\ UNCHANGED <<formId, options, storage, regs, written>>

\* FormPersistence.clearStorage(form, options)
ClearStorage ==
    /\ nops < MaxOps
    /\ LET o == clearStorage(form, formId, storage, options)
       IN  /\ storage' = o.storage
           /\ last' = Did("clearStorage", form, options, o)
           /\ written' = noteWrites(written, o.accesses, form, options)
    /\ nops' = nops + 1
    /\ UNCHANGED <<form, formId, options, regs>>

\* A persist that attaches its listeners even when load raised; C30 fails under it.
PersistAttachingAnyway ==
    /\ nops < MaxOps
    /\ Len(regs) < MaxRegs
    /\ LET o == load(form, formId, storage, options)
       IN  /\ form' = o.f
           /\ last' = Did("persist", form, options, o)
           /\ regs' = Append(regs, Registration(options))
    /\ nops' = nops + 1
    /\ UNCHANGED <<formId, options, storage, written>>

\* FormPersistence.persist(form, options): load, then attach the listeners.
\* An error raised by load leaves persist before any listener is attached.
Persist ==
    /\ nops < MaxOps
    /\ Len(regs) < MaxRegs
    /\ LET o == load(form, formId, storage, options)
       IN  /\ form' = o.f
           /\ last' = Did("persist", form, options, o)
           /\ regs' = IF o.err = "" THEN Append(regs, Registration(options)) ELSE regs
    /\ nops' = nops + 1
    /\ UNCHANGED <<formId, options, storage, written>>

\* window.dispatchEvent(new Event('beforeunload'))
Beforeunload ==
    /\ nops < MaxOps
    /\ LET d == dispatch(form, formId, storage, regs,
                         LAMBDA r : r.beforeunload, save, onBeforeunload)
       IN  /\ storage' = d.storage
           /\ regs' = d.regs
           /\ last' = [NoLast EXCEPT !.op = "beforeunload", !.pre = form,
                                     !.accesses = d.accesses]
           /\ written' = noteWrites(written, d.accesses, form, options)
    /\ nops' = nops + 1
    /\ UNCHANGED <<form, formId, options>>

\* window.dispatchEvent(new Event('unload'))
Unload ==
    /\ nops < MaxOps
    /\ LET d == dispatch(form, formId, storage, regs,
                         LAMBDA r : r.unload, save, onUnload)
       IN  /\ storage' = d.storage
           /\ regs' = d.regs
           /\ last' = [NoLast EXCEPT !.op = "unload", !.pre = form,
                                     !.accesses = d.accesses]
           /\ written' = noteWrites(written, d.accesses, form, options)
    /\ nops' = nops + 1
    /\ UNCHANGED <<form, formId, options>>

\* form.dispatchEvent(new Event('submit'))
Submit ==
    /\ nops < MaxOps
    /\ LET d == dispatch(form, formId, storage, regs,
                         LAMBDA r : r.submit, clearStorage, onSubmit)
       IN  /\ storage' = d.storage
           /\ regs' = d.regs
           /\ last' = [NoLast EXCEPT !.op = "submit", !.pre = form,
                                     !.accesses = d.accesses]
           /\ written' = noteWrites(written, d.accesses, form, options)
    /\ nops' = nops + 1
    /\ UNCHANGED <<form, formId, options>>

Next ==
    \/ Edit \/ FreshPage \/ Save \/ Load \/ ClearStorage \/ Persist
    \/ Beforeunload \/ Unload \/ Submit

Spec == Init /\ [][Next]_vars

(***************************************************************************)
(* Refused registration: the page's form has no id and the options no      *)
(* uuid; the script calls persist, then the user edits, the page's events  *)
(* are dispatched and persist may be called again.                         *)
(***************************************************************************)
InitNoIdentity == Init /\ formId = "" /\ options.uuid = ""

NextNoIdentity ==
    \/ nops = 0 /\ Persist
    \/ nops > 0 /\ (Persist \/ Edit \/ Beforeunload \/ Unload \/ Submit)

SpecNoIdentity == InitNoIdentity /\ [][NextNoIdentity]_vars

(***************************************************************************)
(* Properties of serialize and deserialize (SpecCodec, SpecDeserialize).   *)
(***************************************************************************)
IsPasswordOrFile(c) == c.tag = "INPUT" /\ c.type \in {"password", "file"}
NamesIn(list) == {list[i] : i \in 1..Len(list)}

\* C1: serialize never puts the value of a password or file input into the
\* record, and every key of the record is the name of some control that is
\* neither; a form holding only such inputs serializes to the empty record.
C1_NoPasswordOrFile ==
    last.op = "serialize" =>
        /\ \A i \in 1..Len(last.data) : \A j \in 1..Len(last.data[i].v) :
              last.data[i].v[j] # Str(SecretValue)
        /\ \A k \in Keys(last.data) :
              \E i \in 1..Len(last.pre) :
                  last.pre[i].name = k /\ ~IsPasswordOrFile(last.pre[i])
        /\ (\A i \in 1..Len(last.pre) : IsPasswordOrFile(last.pre[i])) => last.data = <<>>

\* A password input and a text input share the name "a": the record has the key
\* for the text input's value only.
C1_Witness ==
    /\ last.op = "serialize"
    /\ Len(last.pre) = 2
    /\ last.pre[1].type = "password" /\ last.pre[1].name = "a"
    /\ last.pre[2].type = "text" /\ last.pre[2].name = "a" /\ last.pre[2].value = "x"
    /\ last.data = <<[k |-> "a", v |-> <<Str("x")>>]>>

\* C4: deserialize(form, serialize(form)) on a form built from text inputs,
\* checkboxes, radios, textareas and selects, controls sharing a name included,
\* raises nothing and leaves every control in the state it had.
C4_RoundTripRestores ==
    (/\ last.op = "roundtrip"
     /\ \A i \in 1..Len(last.pre) : ~IsPasswordOrFile(last.pre[i]))
    => (last.err = "" /\ form = last.pre)

\* C9: for every record name with a handler, the handler is called once per value
\* of the name's list, in list order, and the default restoration writes no
\* control of that name; handlers of names absent from the record are not called.
C9_HandlersReplaceDefault ==
    last.op = "deserialize" =>
        /\ \A c \in NamesIn(last.calls) :
              c.name \in NamesIn(last.valueFunctions) /\ HasKey(last.data, c.name)
        /\ \A n \in NamesIn(last.valueFunctions) \cap Keys(last.data) :
              /\ SelectSeq(last.calls, LAMBDA c : c.name = n)
                   = [i \in 1..Len(Get(last.data, n)) |->
                         [name |-> n, value |-> Get(last.data, n)[i]]]
              /\ \A j \in 1..Len(last.writes) : last.pre[last.writes[j]].name # n
              /\ \A p \in 1..Len(last.pre) : last.pre[p].name = n => form[p] = last.pre[p]

\* The record has two values for "a" and one for "b", "a" has a handler, the form
\* has a text input of each name: two calls, and only the input "b" is written.
C9_Witness ==
    /\ last.op = "deserialize"
    /\ last.valueFunctions = <<"a">>
    /\ last.data = <<[k |-> "a", v |-> <<Str("y"), Str("x")>>],
                     [k |-> "b", v |-> <<Str("y")>>]>>
    /\ Len(last.pre) = 2
    /\ last.pre[1].type = "text" /\ last.pre[1].name = "a" /\ last.pre[1].loc = "nested"
    /\ last.pre[2].type = "text" /\ last.pre[2].name = "b" /\ last.pre[2].loc = "nested"
    /\ last.calls = <<[name |-> "a", value |-> Str("y")], [name |-> "a", value |-> Str("x")]>>
    /\ last.writes = <<2>>
    /\ form[1] = last.pre[1]

\* Whether a control contributes a value to the record of the release with filters.
Contributes(c) ==
    /\ ~IsPasswordOrFile(c)
    /\ c.name # ""
    /\ c.type = "radio" => c.checked
    /\ c.type = "select-multiple" => c.sel # {}

\* C10: the keys of a filtered serialize are exactly the names of the contributing
\* controls whose name is not in the exclude list and, when the include list is
\* not empty, is in the include list.
C10_FilteredKeys ==
    last.op = "serialize2" =>
        Keys(last.data) =
            {last.pre[i].name : i \in
                {j \in 1..Len(last.pre) :
                    /\ Contributes(last.pre[j])
                    /\ last.pre[j].name \notin NamesIn(last.exclude)
                    /\ last.include # <<>> => last.pre[j].name \in NamesIn(last.include)}}

\* include ["a"] on a form with text inputs "a" and "b" yields only "a".
C10_Witness ==
    /\ last.op = "serialize2"
    /\ last.include = <<"a">> /\ last.exclude = <<>>
    /\ Len(last.pre) = 2
    /\ last.pre[1].type = "text" /\ last.pre[1].name = "a"
    /\ last.pre[2].type = "text" /\ last.pre[2].name = "b"
    /\ Keys(last.data) = {"a"}

(***************************************************************************)
(* Properties of persist, save, load and clearStorage (Spec).              *)
(***************************************************************************)
\* The entry a configuration addresses: 'form#' followed by the uuid, or by the
\* form's id when there is no uuid, in session or local storage.
KeyOf(config) ==
    [prefix |-> "form#", id |-> IF config.uuid # "" THEN config.uuid ELSE formId]
EntryOf(st, config) ==
    getItem(st[IF config.useSessionStorage THEN "sessionStorage" ELSE "localStorage"],
            KeyOf(config))

\* C2: persist, save, load and clearStorage on a form without id, with no uuid
\* option, raise the configuration error, having made no storage access and
\* leaving storage and the listeners as they were.
C2_NoIdentityRaisesFirst ==
    [][(/\ last'.op \in {"persist", "save", "load", "clearStorage"}
        /\ formId = "" /\ options.uuid = "")
       => (/\ last'.err = ConfigError
           /\ last'.accesses = <<>>
           /\ storage' = storage
           /\ regs' = regs
           /\ form' = form)]_vars

\* persist was called on a form without identity while storage held a record.
C2_Witness ==
    /\ last.op = "persist"
    /\ formId = "" /\ options.uuid = ""
    /\ last.err = ConfigError
    /\ storage["localStorage"] # {}
    /\ regs = <<>>

\* C3: when the page has written the entry (save or an unload listener) and load
\* runs later without handlers, under the same scope and key, every control the
\* options resolve, password and file inputs excepted, is in the state it had
\* when the entry was written; the key is the same whether it comes from the
\* uuid option or from the form's id.
C3_LoadRestoresSaved ==
    LET w == written[IF options.useSessionStorage THEN "sessionStorage" ELSE "localStorage"]
    IN  (last.op \in {"load", "persist"} /\ last.valueFunctions = <<>> /\ w.has) =>
            /\ last.err = ""
            /\ SameStructure(w.f, form)
            /\ \A i \in 1..Len(form) :
                  (/\ ~IsPasswordOrFile(form[i])
                   /\ form[i].loc = "external" => (~options.skipExternal /\ formId # ""))
                  => form[i] = w.f[i]

\* The radio group was saved with no radio checked under the uuid "k"; the fresh
\* page, whose form has the id "k" and a checked radio, loads it back.
C3_Witness ==
    LET w == written[IF options.useSessionStorage THEN "sessionStorage" ELSE "localStorage"]
    IN  /\ last.op = "load"
        /\ last.valueFunctions = <<>>
        /\ w.has /\ w.by = "uuid"
        /\ formId = "k" /\ options.uuid = ""
        /\ last.pre = RadioForm
        /\ form = w.f
        /\ \A i \in 1..Len(form) : ~form[i].checked

\* C5: with one registration made with saveOnSubmit false, a submit event leaves
\* no entry under the form's key, and after it beforeunload, unload and submit
\* events leave the key absent.
C5_SubmitClearsForGood ==
    [][(Len(regs) = 1 /\ ~regs[1].config.saveOnSubmit) =>
          /\ last'.op = "submit" => EntryOf(storage', regs[1].config) = Null
          /\ (/\ regs[1].submitted
              /\ EntryOf(storage, regs[1].config) = Null
              /\ last'.op \in {"beforeunload", "unload", "submit"})
             => EntryOf(storage', regs[1].config) = Null]_vars

\* The registration saved on an unload, was cleared by a submit, and a later
\* unload event wrote nothing.
C5_Witness ==
    /\ last.op = "unload"
    /\ last.accesses = <<>>
    /\ Len(regs) = 1
    /\ ~regs[1].config.saveOnSubmit
    /\ regs[1].submitted
    /\ regs[1].saves > 0
    /\ EntryOf(storage, regs[1].config) = Null

\* C6: with registrations made with saveOnSubmit true, right after a submit event
\* the entry under the form's key is the encoding of serialize(form).
C6_SubmitSaves ==
    (/\ last.op = "submit"
     /\ Len(regs) > 0
     /\ \A i \in 1..Len(regs) : regs[i].config.saveOnSubmit)
    => EntryOf(storage, regs[1].config)
         = stringify(serialize(form, formId, regs[1].config.skipExternal))

\* C7 as stated: a registration that received at least one beforeunload or unload
\* event (and no submit) has run save exactly once.
C7_SavesExactlyOnce ==
    \A i \in 1..Len(regs) :
        (~regs[i].submitted /\ regs[i].nBeforeunload + regs[i].nUnload > 0)
        => regs[i].saves = 1

\* C7: a registration that received no submit has run save once per beforeunload
\* event and once per unload event that came before the first beforeunload; the
\* unload events after a beforeunload run no save.
C7_SavesPerPrimaryEvent ==
    \A i \in 1..Len(regs) :
        ~regs[i].submitted
        => regs[i].saves = regs[i].nBeforeunload + regs[i].nUnloadFirst

\* One beforeunload followed by two unload events: save ran once.
C7_Witness ==
    \E i \in 1..Len(regs) :
        /\ ~regs[i].submitted
        /\ regs[i].nBeforeunload = 1
        /\ regs[i].nUnload = 2
        /\ regs[i].nUnloadFirst = 0
        /\ regs[i].saves = 1

\* C8: right after a beforeunload event, and right after an unload event that no
\* beforeunload preceded, the entry of every registration that was not submitted
\* is the encoding of serialize(form); it holds the names serialize produced and
\* no other.
C8_UnloadStoresSerialization ==
    \A i \in 1..Len(regs) :
        (/\ ~regs[i].submitted
         /\ \/ last.op = "beforeunload"
            \/ last.op = "unload" /\ regs[i].nBeforeunload = 0)
        => LET data == serialize(form, formId, regs[i].config.skipExternal)
               entry == EntryOf(storage, regs[i].config)
           IN  /\ entry = stringify(data)
               /\ entry # Null
               /\ Keys(parse(entry)) = Keys(data)

\* The text input holds "y", which only the earlier visit's record {a, b} can
\* have put there; after the unload event the entry holds the name a only.
C8_Witness ==
    /\ last.op = "unload"
    /\ Len(regs) = 1
    /\ ~regs[1].submitted /\ regs[1].nBeforeunload = 0
    /\ Len(form) = 1 /\ form[1].type = "text" /\ form[1].value = "y"
    /\ EntryOf(storage, regs[1].config) = stringify(<<[k |-> "a", v |-> <<Str("y")>>]>>)

(***************************************************************************)
(* Properties of the release with name filters (SpecFilterDeserialize).    *)
(***************************************************************************)
\* A name is filtered when it is in the exclude list, or the include list is not
\* empty and does not hold it.
FilteredByLists(n, include, exclude) ==
    \/ n \in NamesIn(exclude)
    \/ include # <<>> /\ n \notin NamesIn(include)

\* C11: deserialize with include and exclude lists writes no control whose name
\* is filtered: every such control keeps its value, checked state and selection,
\* also when the record holds values for its name.
C11_FilteredNamesUntouched ==
    last.op = "deserialize2" =>
        /\ \A j \in 1..Len(last.writes) :
              ~FilteredByLists(last.pre[last.writes[j]].name, last.include, last.exclude)
        /\ \A p \in 1..Len(last.pre) :
              FilteredByLists(last.pre[p].name, last.include, last.exclude)
              => form[p] = last.pre[p]

\* include ["a"] with the record {a: ["x"], b: ["y"]} on two empty text inputs a and
\* b: a receives "x", b stays empty.
C11_Witness ==
    /\ last.op = "deserialize2"
    /\ last.include = <<"a">> /\ last.exclude = <<>> /\ last.valueFunctions = <<>>
    /\ last.data = <<[k |-> "a", v |-> <<Str("x")>>], [k |-> "b", v |-> <<Str("y")>>]>>
    /\ Len(last.pre) = 2
    /\ last.pre[1].type = "text" /\ last.pre[1].name = "a" /\ last.pre[1].value = ""
    /\ last.pre[2].type = "text" /\ last.pre[2].name = "b" /\ last.pre[2].value = ""
    /\ form[1].value = "x"
    /\ form[2].value = ""
    /\ last.writes = <<1>>

\* C12: a handler registered for a filtered name is never called; a handler for a
\* name of the record that is not filtered is called once per value of the name's
\* list, in list order.
C12_FilteredHandlersNotCalled ==
    last.op = "deserialize2" =>
        /\ \A c \in NamesIn(last.calls) :
              ~FilteredByLists(c.name, last.include, last.exclude)
        /\ \A n \in NamesIn(last.valueFunctions) \cap Keys(last.data) :
              ~FilteredByLists(n, last.include, last.exclude)
              => SelectSeq(last.calls, LAMBDA c : c.name = n)
                   = [i \in 1..Len(Get(last.data, n)) |->
                         [name |-> n, value |-> Get(last.data, n)[i]]]

\* include ["a"], handlers for b and a, the record {a: ["y", "x"], b: ["y"]}: the
\* handler of a is called twice, the handler of b never.
C12_Witness ==
    /\ last.op = "deserialize2"
    /\ last.include = <<"a">> /\ last.exclude = <<>>
    /\ last.valueFunctions = <<"b", "a">>
    /\ last.data = <<[k |-> "a", v |-> <<Str("y"), Str("x")>>],
                     [k |-> "b", v |-> <<Str("y")>>]>>
    /\ last.calls = <<[name |-> "a", value |-> Str("y")], [name |-> "a", value |-> Str("x")]>>
    /\ \E p \in 1..Len(last.pre) : last.pre[p].name = "b"

(***************************************************************************)
(* Properties of the release with predicate filters (SpecPredicate).       *)
(***************************************************************************)
\* A control passes when it matches the includeFilter, if one is given, and does
\* not match the excludeFilter, if one is given.
PassesPredicates(c) ==
    /\ last.include[1] # "" => Holds(last.include[1], c)
    /\ last.exclude[1] # "" => ~Holds(last.exclude[1], c)
OwnName(f, p) == \A q \in 1..Len(f) : q # p => f[q].name # f[p].name

\* C13: after save and reload with the same predicates, a control that does not
\* pass them is not in the record and keeps the state the reloaded page gave it;
\* when the restoration raised nothing, a control with its own name that passes
\* them and contributes a value is back in the state it was saved in.
C13_PredicateFilters ==
    last.op = "saveReload3" =>
        \A p \in 1..Len(last.pre) :
              /\ ~PassesPredicates(last.pre[p]) =>
                    /\ form[p] = last.fresh[p]
                    /\ OwnName(last.pre, p) => ~HasKey(last.data, last.pre[p].name)
              /\ (/\ last.err = ""
                  /\ PassesPredicates(last.pre[p])
                  /\ OwnName(last.pre, p)
                  /\ Contributes(last.pre[p]))
                 => form[p] = last.pre[p]

\* includeFilter "name is a" on text inputs a and b saved with "x" and "x": on the
\* reloaded page, where both are empty, a is "x" again and b stays empty.
C13_Witness ==
    /\ last.op = "saveReload3"
    /\ last.include = <<"a">> /\ last.exclude = <<"">>
    /\ Len(last.pre) = 2
    /\ last.pre[1].type = "text" /\ last.pre[1].name = "a" /\ last.pre[1].value = "x"
    /\ last.pre[2].type = "text" /\ last.pre[2].name = "b" /\ last.pre[2].value = "x"
    /\ last.fresh[1].value = "" /\ last.fresh[2].value = ""
    /\ form[1].value = "x" /\ form[2].value = ""
    /\ last.data = <<[k |-> "a", v |-> <<Str("x")>>]>>

(***************************************************************************)
(* Properties of the storage scopes (Spec).                                *)
(***************************************************************************)
OwnScope == IF options.useSessionStorage THEN "sessionStorage" ELSE "localStorage"
OtherScope == IF options.useSessionStorage THEN "localStorage" ELSE "sessionStorage"

\* C14: load, and the load persist starts with, when the scope of the options
\* has no entry under the form's key, changes no control, calls no handler,
\* raises nothing and leaves storage as it was.
C14_MissingRecordIsNoOp ==
    [][(/\ last'.op \in {"load", "persist"}
        /\ ~(formId = "" /\ options.uuid = "")
        /\ EntryOf(storage, options) = Null)
       => (/\ form' = form
           /\ last'.calls = <<>>
           /\ last'.writes = <<>>
           /\ last'.err = ""
           /\ storage' = storage)]_vars

\* load with a handler for "a" found no entry in its own scope while the other
\* scope holds the earlier visit's record for the same key.
C14_Witness ==
    /\ last.op = "load"
    /\ last.accesses # <<>>
    /\ options.valueFunctions = <<"a">>
    /\ EntryOf(storage, options) = Null
    /\ storage[OtherScope] # {}
    /\ last.calls = <<>>
    /\ form = last.pre

\* C15: save, load, clearStorage, persist and the listeners persist installs
\* access only the scope useSessionStorage selects and leave the other scope's
\* content as it was; what load restores is the entry of its own scope, never
\* the other scope's.
C15_ScopeIsolation ==
    [][(last'.op \in {"save", "load", "clearStorage", "persist",
                      "beforeunload", "unload", "submit"})
       => (/\ storage'[OtherScope] = storage[OtherScope]
           /\ \A i \in 1..Len(last'.accesses) : last'.accesses[i].scope = OwnScope
           /\ (last'.op \in {"load", "persist"} /\ last'.err # ConfigError) =>
                 last'.data = IF EntryOf(storage, options) = Null THEN <<>>
                              ELSE parse(EntryOf(storage, options)))]_vars

\* With useSessionStorage true an unload listener saved the form into session
\* storage while local storage still holds the earlier visit's record.
C15_Witness ==
    /\ last.op = "unload"
    /\ options.useSessionStorage
    /\ Len(last.accesses) = 1 /\ last.accesses[1].scope = "sessionStorage"
    /\ storage["localStorage"] = {[key |-> PageKey, text |-> stringify(PriorRecord)]}
    /\ EntryOf(storage, options) = stringify(serialize(form, formId, options.skipExternal))
    /\ EntryOf(storage, options) # stringify(PriorRecord)

C17_ButtonsIgnored ==
    last.op = "serialize" =>
        last.data = serialize(SelectSeq(last.pre, LAMBDA c : c.type \notin ButtonTypes),
                              formId, last.skipExternal)

(***************************************************************************)
(* Properties of deserialize on checkboxes and radios (SpecDeserialize).   *)
(***************************************************************************)
\* The controls of the form before the call that a record name resolves to.
ResolvedBefore(n) == getFormElements(last.pre, formId, last.skipExternal, TRUE, n)

\* C18: for a record name without a handler whose controls are all checkboxes
\* and whose list holds one boolean per checkbox, deserialize leaves the i-th
\* checkbox checked iff entry i of the list is true.
C18_CheckboxPerIndex ==
    last.op = "deserialize" =>
        \A n \in Keys(last.data) \ NamesIn(last.valueFunctions) :
            LET inputs == ResolvedBefore(n)
                values == Get(last.data, n)
            IN  (/\ \A j \in 1..Len(inputs) : last.pre[inputs[j]].type = "checkbox"
                 /\ Len(values) = Len(inputs)
                 /\ \A j \in 1..Len(values) : values[j].t = "bool")
                => \A j \in 1..Len(inputs) :
                      form[inputs[j]].checked = (values[j] = Bool(TRUE))

\* The record names deserialize restores by default and whose list has a first entry.
RestoredNames ==
    {n \in Keys(last.data) \ NamesIn(last.valueFunctions) : Len(Get(last.data, n)) >= 1}

\* The radios among the controls a record name resolves to, in resolution order.
ResolvedRadios(n) ==
    SelectSeq(ResolvedBefore(n), LAMBDA p : IsRadio(last.pre[p]))

C20_RecordWellFormed ==
    last.op = "serialize" =>
        /\ "" \notin Keys(last.data)
        /\ \A i \in 1..Len(last.data) : Len(last.data[i].v) >= 1

(***************************************************************************)
(* Properties of the element resolver (SpecResolver).                      *)
(***************************************************************************)
\* The positions of the document before the call, in document order, that satisfy Test.
PositionsWhere(Test(_)) == FilterIdx(last.pre, Test)

\* C21: getFormElements returns the nested controls in document order, followed,
\* unless skipExternal is set or the form has no id, by the controls elsewhere
\* in the document whose form attribute is the form's id; with a name, only the
\* controls of that name.
C21_ResolverResult ==
    last.op = "getFormElements" =>
        LET Named(c)     == (~last.attribute) \/ (c.name # "" /\ c.name = last.value)
            Nested(c)    == IsNested(c) /\ Named(c)
            Elsewhere(c) == ~IsNested(c) /\ HasFormAttr(c) /\ Named(c)
        IN  last.elements =
                IF last.skipExternal \/ formId = ""
                THEN PositionsWhere(Nested)
                ELSE PositionsWhere(Nested) \o PositionsWhere(Elsewhere)

(***************************************************************************)
(* Order of the values within a list of the serialized record (SpecCodec). *)
(***************************************************************************)
\* The values one control pushes when serialize reaches it.
Contribution(c) ==
    LET d == serializeElement(<<>>, c) IN IF d = <<>> THEN <<>> ELSE d[1].v

\* The contributions of the controls at the given positions, concatenated in order.
Contributions(positions) ==
    LET V[i \in 0..Len(positions)] ==
            IF i = 0 THEN <<>> ELSE V[i - 1] \o Contribution(last.pre[positions[i]])
    IN  V[Len(positions)]

\* Whether serialize's options make it reach a control carrying the form attribute.
ReachesExternal == ~last.skipExternal /\ formId # ""

\* C22: every list of the serialized record holds the values of the same-named
\* serialized controls in their document order, wherever those controls stand.
C22_ListInDocumentOrder ==
    last.op = "serialize" =>
        \A n \in Keys(last.data) :
            LET Named(c) == c.name = n /\ (IsNested(c) \/ (HasFormAttr(c) /\ ReachesExternal))
            IN  Get(last.data, n) = Contributions(PositionsWhere(Named))

\* C22, amended: every list holds first the values of the same-named controls
\* nested in the form, in document order, then those of the same-named controls
\* matched through the form attribute, in document order.
C22_ListInResolutionOrder ==
    last.op = "serialize" =>
        \A n \in Keys(last.data) :
            LET Inside(c)  == c.name = n /\ IsNested(c)
                ByAttr(c)  == c.name = n /\ HasFormAttr(c) /\ ReachesExternal
            IN  Get(last.data, n)
                    = Contributions(PositionsWhere(Inside)) \o Contributions(PositionsWhere(ByAttr))

\* A text input "a" holding "x" before the form and a nested text input "a"
\* holding "": the list is ["", "x"], the nested value first.
C22_Witness ==
    /\ last.op = "serialize" /\ ~last.skipExternal /\ formId = "f"
    /\ Len(last.pre) = 2
    /\ last.pre[1] = Control("INPUT", "text", "a", "external", "x", FALSE, {})
    /\ last.pre[2] = Control("INPUT", "text", "a", "nested", "", FALSE, {})
    /\ last.data = <<[k |-> "a", v |-> <<Str(""), Str("x")>>]>>

(***************************************************************************)
(* Order of the steps of one deserialize call (SpecDeserialize).           *)
(***************************************************************************)
\* The handler calls the table and the record ask for: the table's names in
\* definition order, and for each name present in the record one call per value
\* of its list, in list order.
ExpectedCalls ==
    LET E[i \in 0..Len(last.valueFunctions)] ==
            IF i = 0 THEN <<>>
            ELSE LET n == last.valueFunctions[i]
                 IN  IF HasKey(last.data, n)
                     THEN E[i - 1] \o [j \in 1..Len(Get(last.data, n)) |->
                                          [name |-> n, value |-> Get(last.data, n)[j]]]
                     ELSE E[i - 1]
    IN  E[Len(last.valueFunctions)]

C24_AddedControlRestored ==
    (/\ last.op = "deserializeAdding" /\ last.err = ""
     /\ HasKey(last.data, last.addedName)
     /\ last.addedName \notin NamesIn(last.valueFunctions))
    => \A a \in 1..Len(last.added) :
          LET p == last.added[a]
              inputs == getFormElements(form, formId, last.skipExternal, TRUE, last.addedName)
          IN  /\ form[p].name = last.addedName
              /\ \E j \in 1..Len(last.writes) : last.writes[j] = p
              /\ \E i \in 1..Len(inputs) :
                    /\ inputs[i] = p
                    /\ form[p].value = ToDOMString(At(Get(last.data, last.addedName), i - 1))

\* The handler of "a" is called once on an empty form and adds a text input "b";
\* the record's "b" is ["y"]: the new input holds "y".
C24_Witness ==
    /\ last.op = "deserializeAdding" /\ last.err = ""
    /\ last.pre = <<>>
    /\ last.valueFunctions = <<"a">> /\ last.addedName = "b"
    /\ last.data = <<[k |-> "a", v |-> <<Str("x")>>], [k |-> "b", v |-> <<Str("y")>>]>>
    /\ last.added = <<1>>
    /\ Len(form) = 1 /\ form[1].name = "b" /\ form[1].value = "y"

(***************************************************************************)
(* The unload listener after a beforeunload event (Spec).                  *)
(***************************************************************************)
\* The registrations whose beforeunload listener has run / has had no event, no
\* submit event having been dispatched.
RanBeforeunload(rs)   == {i \in 1..Len(rs) : ~rs[i].submitted /\ rs[i].nBeforeunload > 0}
NoBeforeunloadYet(rs) == {i \in 1..Len(rs) : ~rs[i].submitted /\ rs[i].nBeforeunload = 0}

\* C25: an unload event runs no save for a registration whose beforeunload
\* listener has run, and runs the save of a registration that has had no
\* beforeunload event; when the beforeunload listener of every registration has
\* run, the unload event accesses no storage.
C25_UnloadAfterBeforeunload ==
    [][(last'.op = "unload") =>
          /\ \A i \in RanBeforeunload(regs) : regs'[i].saves = regs[i].saves
          /\ \A i \in NoBeforeunloadYet(regs) : regs'[i].saves = regs[i].saves + 1
          /\ Len(last'.accesses) = Cardinality({i \in 1..Len(regs) : regs[i].unload})
          /\ RanBeforeunload(regs) = 1..Len(regs)
                => (last'.accesses = <<>> /\ storage' = storage)]_vars

\* One registration, one beforeunload event then one unload event: save ran once,
\* in the beforeunload event, and the unload event touched no storage.
C25_Witness ==
    /\ last.op = "unload" /\ last.accesses = <<>>
    /\ Len(regs) = 1
    /\ ~regs[1].submitted
    /\ regs[1].nBeforeunload = 1 /\ regs[1].nUnload = 1
    /\ regs[1].saves = 1
    /\ EntryOf(storage, regs[1].config) # Null

(***************************************************************************)
(* What deserialize leaves alone (SpecDeserialize).                        *)
(***************************************************************************)
\* C26: deserialize leaves every control whose name is not a key of the record
\* exactly as it was; when no key of the record resolves to a control, and in
\* particular for the empty record, it raises nothing and changes nothing.
C26_UnmentionedControlsKept ==
    last.op = "deserialize" =>
        /\ \A p \in 1..Len(last.pre) :
              last.pre[p].name \notin Keys(last.data) => form[p] = last.pre[p]
        /\ (\A n \in Keys(last.data) : ResolvedBefore(n) = <<>>)
              => (last.err = "" /\ form = last.pre /\ last.writes = <<>>)

\* The record has the names "a" and "b"; the form is a text input "a" and a checked
\* checkbox without a name: the input is written, the checkbox stays checked.
C26_Witness ==
    /\ last.op = "deserialize" /\ last.err = ""
    /\ last.valueFunctions = <<>>
    /\ last.data = <<[k |-> "a", v |-> <<Str("x")>>], [k |-> "b", v |-> <<Str("y")>>]>>
    /\ Len(last.pre) = 2
    /\ last.pre[1] = Control("INPUT", "text", "a", "nested", "", FALSE, {})
    /\ last.pre[2] = Control("INPUT", "checkbox", "", "nested", "on", TRUE, {})
    /\ form[1].value = "x"
    /\ form[2] = last.pre[2]
    /\ last.writes = <<1>>

(***************************************************************************)
(* Each control resolved once (SpecResolver).                              *)
(***************************************************************************)
NoRepeats(seq) == \A i, j \in 1..Len(seq) : seq[i] = seq[j] => i = j

\* C27: getFormElements returns no control twice, serialize takes each control's
\* contribution once, and deserialize calls applyValues on no control twice.
C27_EachControlOnce ==
    /\ last.op = "getFormElements" => NoRepeats(last.elements)
    /\ last.op = "serialize" =>
          \A n \in Keys(last.data) :
              LET Named(c) == c.name = n
              IN  Len(Get(last.data, n)) <= Len(Contributions(PositionsWhere(Named)))
    /\ last.op = "deserialize" => NoRepeats(last.writes)

(***************************************************************************)
(* Password and file inputs under deserialize (SpecDeserialize).           *)
(***************************************************************************)
\* C28: deserialize leaves the value of every password and file input as it was,
\* whatever the record; and where the controls resolved for a record name are
\* text and password inputs, the text inputs receive the list entries at their
\* index among the text inputs, the password inputs not being counted.
C28_PasswordAndFileUntouched ==
    last.op = "deserialize" =>
        /\ \A p \in 1..Len(last.pre) :
              IsPasswordOrFile(last.pre[p]) => form[p].value = last.pre[p].value
        /\ \A n \in Keys(last.data) \ NamesIn(last.valueFunctions) :
              LET inputs == ResolvedBefore(n)
                  texts  == SelectSeq(inputs, LAMBDA p : last.pre[p].type = "text")
              IN  (/\ last.err = ""
                   /\ \A j \in 1..Len(inputs) :
                         last.pre[inputs[j]].type \in {"text", "password"})
                  => \A j \in 1..Len(texts) :
                        (j <= Len(Get(last.data, n)))
                        => form[texts[j]].value = ToDOMString(Get(last.data, n)[j])

(***************************************************************************)
(* Values deserialize assigns (SpecDeserialize).                           *)
(***************************************************************************)
\* Whether a control takes its value from values[index]: a text-like input, a
\* textarea or a single select.
TakesIndexedValue(c) ==
    \/ c.tag = "INPUT" /\ c.type = "text"
    \/ c.tag = "TEXTAREA"
    \/ c.tag = "SELECT" /\ c.type = "select-one"

\* What such a control shows: its value, or for a single select its selected option.
Shown(c) == IF c.tag = "SELECT" THEN c.sel ELSE {c.value}

\* C29: after deserialize every text input, textarea and single select either is
\* as it was or shows an entry of the record list of its name (as a string); none
\* shows a value that is not an entry of that list.
C29_OnlyListEntriesAssigned ==
    (last.op = "deserialize" /\ last.valueFunctions = <<>>) =>
        \A p \in 1..Len(last.pre) :
            TakesIndexedValue(last.pre[p]) =>
                \/ form[p] = last.pre[p]
                \/ /\ HasKey(last.data, last.pre[p].name)
                   /\ \A s \in Shown(form[p]) :
                         \E i \in 1..Len(Get(last.data, last.pre[p].name)) :
                            ToDOMString(Get(last.data, last.pre[p].name)[i]) = s

(***************************************************************************)
(* After persist raised the missing-identity error (SpecNoIdentity).       *)
(***************************************************************************)
\* C30: persist on a form without identity raises the error, attaches no listener
\* and changes no control; the beforeunload, unload and submit events dispatched
\* afterwards run no listener of it: no storage access, no error, storage and
\* form as they were.
C30_RefusedPersistLeavesNothing ==
    [][/\ last'.op = "persist" =>
            (/\ last'.err = ConfigError /\ last'.accesses = <<>>
             /\ form' = form /\ storage' = storage /\ regs' = <<>>)
       /\ last'.op \in {"beforeunload", "unload", "submit"} =>
            (/\ last'.err = "" /\ last'.accesses = <<>>
             /\ form' = form /\ storage' = storage /\ regs' = <<>>)]_vars

\* persist raised, the user typed, and a submit event was dispatched: the earlier
\* visit's record is still in storage and nothing is registered.
C30_Witness ==
    /\ last.op = "submit" /\ nops = 3
    /\ formId = "" /\ options.uuid = ""
    /\ ~options.saveOnSubmit
    /\ Len(form) = 1 /\ form[1].type = "text" /\ form[1].value = "x"
    /\ storage["localStorage"] # {}
    /\ regs = <<>>
    /\ last.accesses = <<>>

====
